---- MODULE Spec2Model ----
(***************************************************************************)
(* mdify: the docling-serve container lifecycle manager                    *)
(* (mdify/container.py), the HTTP client (mdify/docling_client.py) and the *)
(* batch loop of the command line (mdify/cli.py, main).                    *)
(*                                                                         *)
(* The container engine (docker / podman, reached through subprocess.run)  *)
(* and the docling-serve HTTP service are the environment: every command   *)
(* and every request gets one of the outcomes the engine or the service    *)
(* can produce.                                                            *)
(***************************************************************************)
EXTENDS Integers, Sequences, FiniteSets, TLC

\* ------------------------------------------------------------------ bounds
\* Largest readiness timeout T given to a direct start(T) call.
MaxTimeout == 5
\* Longest duration, in seconds, of one GET /health probe.
MaxProbeDur == 2
\* Input files of one run of the command line.
NumFiles == 3
\* start() calls made on one manager.
MaxStarts == 2
\* stop() calls made on one manager.
MaxStops == 2
\* Poll cycles of one health wait that are counted (more count as this many).
MaxCycles == 2

\* ------------------------------------------------------- program constants
\* time.sleep(2) in _wait_for_health
PollInterval == 2
\* def start(self, timeout: int = 120)
DefaultStartTimeout == 120
\* port: int = 5001
DefaultPort == 5001
\* a second host port, for a manager constructed with port=5002
OtherPort == 5002

None == "None"

\* The naming prefix of DoclingContainer.container_name and of the ps filter.
ToolPrefix == "mdify-serve-"

Managers == {"m1", "m2"}
\* Containers leaked by crashed previous runs (at most these are running in
\* the initial state), and a container that is not one of this tool's.
StaleIds == {"s1", "s2"}
ForeignIds == {"f1"}
Ports == {DefaultPort, OtherPort}

\* f"mdify-serve-{uuid.uuid4().hex[:8]}": the prefix and a unique suffix.
ContainerName(m) == [prefix |-> ToolPrefix, id |-> m]

StaleNames == {[prefix |-> ToolPrefix, id |-> s] : s \in StaleIds}
ForeignNames == {[prefix |-> "other-", id |-> f] : f \in ForeignIds}
Names == {ContainerName(m) : m \in Managers} \cup StaleNames \cup ForeignNames

VARIABLES
    \* --- the container engine
    engineUp,      \* the runtime binary can be executed (else subprocess.run raises)
    running,       \* names of the containers that are running
    port,          \* self.port of each manager
    \* --- DoclingContainer, per manager
    container_id,  \* self.container_id
    pc,            \* where the manager's current start() call stands
    timeout,       \* the timeout argument of the current start() call
    elapsed,       \* time.time() - start_time in _wait_for_health
    sweep,         \* names of the ps listing not yet stopped
    result,        \* how the last call on the manager ended
    \* --- history of the calls, read by the properties only
    lifecycle,     \* the lifecycle state of section 4.1
    starts,        \* start() calls so far
    stops,         \* stop() calls so far
    listed,        \* the ps listing of the current start(), and whether ps succeeded
    stopIssued,    \* names the current start() has issued a stop command for
    stopOk,        \* those of them whose stop command returned 0
    runIssued,     \* run commands the current start() has issued
    lastReply,     \* the HTTP outcome of the last health probe of the current start()
    cycles,        \* poll cycles (probe, then sleep) of the current start(), up to MaxCycles
    conflict,      \* the name that held the port when the run command was issued
    raced,         \* another manager launched between this one's listing and run
    \* --- main() of the command line
    mainPc,        \* where main stands
    overwrite,     \* args.overwrite
    idx,           \* the index of the file the loop is at
    disk,          \* the output files: absent, left by an earlier run, or written
    success_count,
    skipped_count,
    failed_count,
    requests,      \* the files a conversion request was issued for, in order
    outcomes,      \* what the loop recorded for each file it went through, in order
    pending,       \* the exception that is leaving the body of the with-block
    exitStatus,    \* what main returned or raised
    interruptedAt, \* where the user interrupt arrived, None if none did
    \* --- one call of the conversion client
    clientCall,    \* the function called, "none" before the call
    clientReply,   \* what the HTTP request of the call ends with
    clientRet,     \* what the call returned or raised
    clientArg,     \* the task_id argument of the call (poll_status, get_result)
    clientUrl,     \* the endpoint and the key of the URL the call requested
    submitted,     \* the task id the last convert_file_async returned
    polled,        \* the argument, the URL and the status of the last poll_status
                   \* that returned
    ready,         \* per manager: the last is_ready(): its probes, what the
                   \* probe ended with, what check_health made of it, and
                   \* what is_ready returned
    quiet,         \* args.quiet
    spinner,       \* the Spinner of main: running, prefix, the _spin threads
                   \* alive, and the prefix of the line they last printed
    inputs,        \* what the file system, the service and the user did to
                   \* the loop of main, step by step
    written,       \* the output paths write_text has written, in order
    lastResult     \* what the last convert_file gave main: success, content

engineVars == <<engineUp, running, port>>
mgrVars == <<container_id, pc, timeout, elapsed, sweep, result>>
histVars == <<lifecycle, starts, stops, listed, stopIssued, stopOk,
              runIssued, lastReply, cycles, conflict, raced>>
cliVars == <<mainPc, overwrite, idx, disk, success_count, skipped_count,
             failed_count, requests, outcomes, pending, exitStatus,
             interruptedAt>>
clientVars == <<clientCall, clientReply, clientRet, clientArg, clientUrl,
                submitted, polled>>
probeVars == <<ready>>
runVars == <<quiet, spinner, inputs, written, lastResult>>
vars == <<engineVars, mgrVars, histVars, cliVars, clientVars, probeVars, runVars>>

\* ------------------------------------------------------------- the engine
\* The host port a container is bound to ("-p", f"{self.port}:5001").
StalePort(n) == IF n.id = "s2" THEN OtherPort ELSE DefaultPort

PortOf(n) == IF n.id \in Managers THEN port[n.id] ELSE StalePort(n)

\* `ps --filter name=mdify-serve- --format {{.Names}}`: the running
\* containers whose name matches the filter.
PsListing == {n \in running : n.prefix = ToolPrefix}

\* The running containers bound to host port p.
Occupants(p) == {n \in running : PortOf(n) = p}

\* Return codes of an engine command that can succeed: 0, or a failure of
\* the daemon.
ExitCodes == {0, 1}

\* `stop <name>`: return codes the engine can give. A container that is not
\* running cannot be stopped ("No such container").
StopCodes(n) == IF n \in running THEN ExitCodes ELSE {1}

\* The containers running after `stop <name>` ended with return code rc.
AfterStop(n, rc) == IF rc = 0 THEN running \ {n} ELSE running

\* `run -d --rm --name <name> -p <port>:5001 ...`: the engine refuses a name
\* or a host port that is in use; otherwise the launch may still fail (image).
RunCodes(n) ==
    IF n \in running \/ Occupants(PortOf(n)) # {} THEN {1} ELSE ExitCodes

\* ------------------------------------------------------ the health probe
\* What requests.get(f"{base_url}/health") can end with: a response with a
\* status code, a requests.RequestException (connection refused, timeout),
\* or an exception of another class.
StatusReplies == {[kind |-> "status", code |-> c] : c \in {200, 503}}
ErrorReplies == {[kind |-> k, code |-> 0] : k \in {"RequestException", "Exception"}}
NoReply == [kind |-> "none", code |-> 0]

\* A status code needs a server behind the port.
ProbeReplies(p) ==
    IF Occupants(p) # {} THEN StatusReplies \cup ErrorReplies ELSE ErrorReplies

\* A probe that takes every response for health.
check_health_any_status(reply) ==
    CASE reply.kind = "status" -> "True"
      [] reply.kind = "RequestException" -> "False"
      [] OTHER -> "raise"

\* check_health: "True", "False", or "raise" when the exception is not one
\* the function catches.
check_health(reply) ==
    CASE reply.kind = "status" -> IF reply.code = 200 THEN "True" ELSE "False"
      [] reply.kind = "RequestException" -> "False"
      [] OTHER -> "raise"

\* A loop without the `except Exception: pass`: the exception leaves start().
wait_for_health_step_propagate(h) ==
    CASE h = "True" -> "return"
      [] h = "False" -> "sleep"
      [] OTHER -> "raise"

\* One iteration of the loop of _wait_for_health on a probe that ended as h:
\* return on True, and `except Exception: pass` then sleep on anything else.
wait_for_health_step(h) ==
    CASE h = "True" -> "return"
      [] h = "False" -> "sleep"
      [] OTHER -> "sleep"

\* --------------------------------------------------------- DoclingContainer
\* How a call ended: what it returned or raised, and the return code of the
\* last engine command it issued.
Outcome(call, out, rc) == [call |-> call, out |-> out, rc |-> rc]

NoName == [prefix |-> "", id |-> ""]
NoListing == [ok |-> FALSE, names |-> {}]

\* A start() that does not sweep.
cleanup_names_none(rc, out) == {}

\* _cleanup_stale_containers: the names to stop after ps ended with rc and
\* printed out: none when `result.returncode != 0 or not result.stdout.strip()`.
cleanup_names(rc, out) == IF rc # 0 \/ out = {} THEN {} ELSE out

\* A sweep that gives up at the first stop command that fails.
cleanup_rest_abort(names, n, rc) == IF rc # 0 THEN {} ELSE names \ {n}

\* _cleanup_stale_containers: the names left to stop after the stop command
\* for n ended with rc (check=False: the loop goes on).
cleanup_rest(names, n, rc) == names \ {n}

\* A start() that issues the run command again when it failed.
start_after_run_retry(rc) == IF rc = 0 THEN "wait" ELSE "run"

\* start(): where the run command's return code leads (check=True).
start_after_run(rc) == IF rc = 0 THEN "wait" ELSE "raise"

\* start(), up to the ps command of _cleanup_stale_containers.
start_ps(m, T) ==
    /\ pc[m] = "idle"
    /\ starts[m] < MaxStarts
    /\ starts' = [starts EXCEPT ![m] = @ + 1]
    /\ timeout' = [timeout EXCEPT ![m] = T]
    /\ stopIssued' = [stopIssued EXCEPT ![m] = {}]
    /\ stopOk' = [stopOk EXCEPT ![m] = {}]
    /\ runIssued' = [runIssued EXCEPT ![m] = 0]
    /\ lastReply' = [lastReply EXCEPT ![m] = NoReply]
    /\ cycles' = [cycles EXCEPT ![m] = 0]
    /\ conflict' = [conflict EXCEPT ![m] = NoName]
    /\ raced' = [raced EXCEPT ![m] = FALSE]
    /\ elapsed' = [elapsed EXCEPT ![m] = 0]
    /\ IF ~engineUp
       THEN /\ result' = [result EXCEPT ![m] = Outcome("start", "FileNotFoundError", 0)]
            /\ lifecycle' = [lifecycle EXCEPT ![m] = "Error"]
            /\ listed' = [listed EXCEPT ![m] = NoListing]
            /\ UNCHANGED <<pc, sweep>>
       ELSE \E rc \in ExitCodes :
            LET names == cleanup_names(rc, PsListing) IN
            /\ result' = [result EXCEPT ![m] = Outcome("start", "running", rc)]
            /\ lifecycle' = [lifecycle EXCEPT ![m] = "Starting"]
            /\ listed' = [listed EXCEPT ![m] =
                            IF rc # 0 THEN NoListing
                            ELSE [ok |-> TRUE, names |-> PsListing]]
            /\ sweep' = [sweep EXCEPT ![m] = names]
            /\ pc' = [pc EXCEPT ![m] = IF names = {} THEN "run" ELSE "sweep"]
    /\ UNCHANGED <<engineVars, container_id, stops>>

\* The loop of _cleanup_stale_containers: one stop command, its return code
\* ignored (check=False).
cleanup_stop(m) ==
    /\ pc[m] = "sweep"
    /\ \E n \in sweep[m] : \E rc \in StopCodes(n) :
        /\ running' = AfterStop(n, rc)
        /\ sweep' = [sweep EXCEPT ![m] = cleanup_rest(@, n, rc)]
        /\ stopIssued' = [stopIssued EXCEPT ![m] = @ \cup {n}]
        /\ stopOk' = [stopOk EXCEPT ![m] = IF rc = 0 THEN @ \cup {n} ELSE @]
        /\ pc' = [pc EXCEPT ![m] =
                    IF cleanup_rest(sweep[m], n, rc) = {} THEN "run" ELSE "sweep"]
    /\ UNCHANGED <<engineUp, port, container_id, timeout, elapsed, result,
                   lifecycle, starts, stops, listed, runIssued, lastReply,
                   cycles, conflict, raced>>

\* The managers that have listed the running containers and not yet
\* launched their own.
BetweenListingAndRun(m) == {k \in Managers \ {m} : pc[k] \in {"sweep", "run"}}

\* start(): the run command. check=True: a non-zero return code raises
\* CalledProcessError, which start() raises again; container_id is set only
\* after the command succeeded.
start_run(m) ==
    LET n == ContainerName(m)
        occ == Occupants(PortOf(n))
    IN
    /\ pc[m] = "run"
    /\ runIssued' = [runIssued EXCEPT ![m] = @ + 1]
    /\ conflict' = [conflict EXCEPT ![m] =
                       IF occ = {} THEN NoName ELSE CHOOSE x \in occ : TRUE]
    /\ \E rc \in RunCodes(n) :
        CASE start_after_run(rc) = "wait" ->
             /\ running' = IF rc = 0 THEN running \cup {n} ELSE running
             /\ container_id' = [container_id EXCEPT ![m] = n.id]
             /\ pc' = [pc EXCEPT ![m] = "wait"]
             /\ raced' = [k \in Managers |->
                            IF k \in BetweenListingAndRun(m) /\ port[k] = port[m]
                            THEN TRUE ELSE raced[k]]
             /\ UNCHANGED <<result, lifecycle>>
          [] start_after_run(rc) = "raise" ->
             /\ result' = [result EXCEPT ![m] = Outcome("start", "CalledProcessError", rc)]
             /\ lifecycle' = [lifecycle EXCEPT ![m] = "Error"]
             /\ pc' = [pc EXCEPT ![m] = "idle"]
             /\ UNCHANGED <<running, container_id, raced>>
          [] OTHER ->
             /\ pc' = [pc EXCEPT ![m] = start_after_run(rc)]
             /\ UNCHANGED <<running, container_id, raced, result, lifecycle>>
    /\ UNCHANGED <<engineUp, port, timeout, elapsed, sweep, starts, stops,
                   listed, stopIssued, stopOk, lastReply, cycles>>

\* _wait_for_health: one iteration of `while time.time() - start_time <
\* timeout`: a probe that takes d seconds, then return or sleep.
wait_probe(m) ==
    /\ pc[m] = "wait"
    /\ elapsed[m] < timeout[m]
    /\ \E reply \in ProbeReplies(port[m]) : \E d \in 0..MaxProbeDur :
        /\ lastReply' = [lastReply EXCEPT ![m] = reply]
        /\ CASE wait_for_health_step(check_health(reply)) = "return" ->
                  /\ result' = [result EXCEPT ![m] = Outcome("start", "returned", 0)]
                  /\ lifecycle' = [lifecycle EXCEPT ![m] = "Healthy"]
                  /\ pc' = [pc EXCEPT ![m] = "idle"]
                  /\ UNCHANGED <<elapsed, cycles>>
             [] wait_for_health_step(check_health(reply)) = "sleep" ->
                  /\ elapsed' = [elapsed EXCEPT ![m] = @ + d + PollInterval]
                  /\ cycles' = [cycles EXCEPT ![m] =
                                   IF @ < MaxCycles THEN @ + 1 ELSE @]
                  /\ UNCHANGED <<result, lifecycle, pc>>
             [] OTHER ->
                  /\ result' = [result EXCEPT ![m] = Outcome("start", "Exception", 0)]
                  /\ lifecycle' = [lifecycle EXCEPT ![m] = "Error"]
                  /\ pc' = [pc EXCEPT ![m] = "idle"]
                  /\ UNCHANGED <<elapsed, cycles>>
    /\ UNCHANGED <<engineVars, container_id, timeout, sweep, starts, stops,
                   listed, stopIssued, stopOk, runIssued, conflict, raced>>

\* _wait_for_health: the loop condition fails, TimeoutError.
wait_timeout(m) ==
    /\ pc[m] = "wait"
    /\ ~(elapsed[m] < timeout[m])
    /\ result' = [result EXCEPT ![m] = Outcome("start", "TimeoutError", 0)]
    /\ lifecycle' = [lifecycle EXCEPT ![m] = "Error"]
    /\ pc' = [pc EXCEPT ![m] = "idle"]
    /\ UNCHANGED <<engineVars, container_id, timeout, elapsed, sweep, starts,
                   stops, listed, stopIssued, stopOk, runIssued, lastReply,
                   cycles, conflict, raced>>

\* stop(): `if self.container_name:` then one stop command, check=False.
\* subprocess.run raises when the binary cannot be executed.
stop(m) ==
    LET n == ContainerName(m) IN
    /\ pc[m] = "idle"
    /\ stops[m] < MaxStops
    /\ stops' = [stops EXCEPT ![m] = @ + 1]
    /\ IF n = NoName
       THEN /\ result' = [result EXCEPT ![m] = Outcome("stop", "returned", 0)]
            /\ UNCHANGED <<running, lifecycle>>
       ELSE IF ~engineUp
       THEN /\ result' = [result EXCEPT ![m] = Outcome("stop", "FileNotFoundError", 0)]
            /\ UNCHANGED <<running, lifecycle>>
       ELSE \E rc \in StopCodes(n) :
            /\ running' = AfterStop(n, rc)
            /\ result' = [result EXCEPT ![m] = Outcome("stop", "returned", rc)]
            /\ lifecycle' = [lifecycle EXCEPT ![m] =
                                IF @ = "Uninitialized" THEN @ ELSE "Stopped"]
    /\ UNCHANGED <<engineUp, port, container_id, pc, timeout, elapsed, sweep,
                   starts, listed, stopIssued, stopOk, runIssued, lastReply,
                   cycles, conflict, raced>>

\* is_ready() has not been called.
NotProbed == [probes |-> 0, reply |-> NoReply, health |-> "none", value |-> "none"]

\* An is_ready without its try: what check_health does leaves the call.
is_ready_result_propagate(h) == h

\* is_ready: `try: return check_health(self.base_url)`,
\* `except Exception: return False`.
is_ready_result(h) == IF h = "True" THEN "True" ELSE "False"

\* is_ready(): one probe of the manager's base_url, nothing else.
is_ready(m) ==
    /\ pc[m] = "idle"
    /\ \E reply \in ProbeReplies(port[m]) :
          ready' = [ready EXCEPT ![m] =
                      [probes |-> 1, reply |-> reply,
                       health |-> check_health(reply),
                       value |-> is_ready_result(check_health(reply))]]
    /\ UNCHANGED <<engineVars, mgrVars, histVars>>

\* ------------------------------------------------------------- JSON values
\* What response.json() can return: None, a str, a number, a dict (a
\* function from its keys to values) or a list.
JNull == [t |-> "null"]
JStr(s) == [t |-> "str", s |-> s]
JNum(n) == [t |-> "num", n |-> n]
JObj(f) == [t |-> "obj", f |-> f]
JList(q) == [t |-> "list", items |-> q]

\* bool(v) of Python, as `or`, `not` and `if` apply it.
Truthy(v) ==
    CASE v.t = "null" -> FALSE
      [] v.t = "str" -> v.s # ""
      [] v.t = "num" -> v.n # 0
      [] v.t = "obj" -> DOMAIN v.f # {}
      [] v.t = "list" -> v.items # <<>>

\* `a or b` of Python: a when it is truthy, b otherwise.
Or(a, b) == IF Truthy(a) THEN a ELSE b

\* dict.get(key, default): the value stored under the key, a null included.
Get(o, key, default) == IF key \in DOMAIN o.f THEN o.f[key] ELSE default

\* Non-empty content strings.
Texts == {"X", "Y"}

\* The values of a content field of a response: null, empty, non-empty.
FieldValues == {JNull, JStr("")} \cup {JStr(x) : x \in Texts}

\* The document objects: each content field absent or present.
Documents ==
    {JObj(f) : f \in UNION {[K -> FieldValues] : K \in SUBSET {"md_content", "content"}}}

\* Values that are no object.
Scalars == {JNull, JStr(""), JStr("X"), JNum(0), JNum(1)}

\* The response objects of the conversion endpoints: "document" absent, an
\* object, or something else; "content" absent or present.
ResponseObjects ==
    {JObj(d @@ c) :
        d \in {<<>>} \cup {[document |-> v] : v \in Documents \cup {JNull, JStr("X"), JList(<<>>)}},
        c \in {<<>>} \cup {[content |-> v] : v \in FieldValues}}

\* The response objects of the async submit endpoint.
TaskIds == {JNull, JStr(""), JStr("abc"), JNum(7)}
TaskObjects ==
    {JObj([task_id |-> v]) : v \in TaskIds}
    \cup {JObj([task_id |-> JStr("abc"), content |-> JStr("X")])}

\* The bodies of a 200 response that parse as JSON.
JsonBodies ==
    ResponseObjects \cup TaskObjects \cup Scalars
    \cup {JList(<<>>), JList(<<JNull>>), JList(<<JStr("X")>>),
          JList(<<JObj([content |-> JStr("X")]), JObj([content |-> JStr("Y")])>>)}
    \cup {JList(<<o>>) : o \in ResponseObjects}

\* ------------------------------------------------------ the conversion client
\* Texts are sequences of tokens, so that one text can contain another.
StatusText(code) ==
    CASE code = 200 -> "200" [] code = 201 -> "201"
      [] code = 404 -> "404" [] code = 500 -> "500"

\* response.text of a response that is not 200.
ErrorBodies == {<<>>, <<"boom">>, <<"Internal ", "Server ", "Error">>}

\* str(e) of the exceptions requests raises for a transport failure: requests
\* builds them around the underlying error, whose text they carry.
TransportTexts == {<<"Connection refused">>, <<"Read timed out">>}

\* What a request of the client can end with: a response (status code, text,
\* parsed body), a requests.RequestException, or an exception of another
\* class (open() failed).
HttpReply(kind, code, text, json) ==
    [kind |-> kind, code |-> code, text |-> text, json |-> json]

ConvertReplies ==
    {HttpReply("status", 200, <<>>, b) : b \in JsonBodies}
    \cup {HttpReply("status", c, t, JNull) : c \in {201, 404, 500}, t \in ErrorBodies}
    \cup {HttpReply("RequestException", 0, t, JNull) : t \in TransportTexts}
    \cup {HttpReply("OSError", 0, <<"No such file">>, JNull)}

NoRequest == HttpReply("none", 0, <<>>, JNull)

\* ConvertResult.error: None or a text.
NoError == [set |-> FALSE, text |-> <<>>]
ErrorText(t) == [set |-> TRUE, text |-> t]

\* What a call of the client ends with: a ConvertResult, a returned value
\* (a task id), or a raised exception.
ConvertResult(content, success, error) ==
    [kind |-> "result", content |-> content, success |-> success,
     error |-> error, exc |-> "", status_code |-> 0, message |-> <<>>]
ReturnedValue(v) ==
    [kind |-> "value", content |-> v, success |-> TRUE,
     error |-> NoError, exc |-> "", status_code |-> 0, message |-> <<>>]
RaisedError(exc, code, message) ==
    [kind |-> "raise", content |-> JStr(""), success |-> FALSE,
     error |-> NoError, exc |-> exc, status_code |-> code, message |-> message]
NotCalled ==
    [kind |-> "none", content |-> JStr(""), success |-> FALSE,
     error |-> NoError, exc |-> "", status_code |-> 0, message |-> <<>>]

\* DoclingHTTPError(status_code, message): f"HTTP {status_code}: {message}".
DoclingHTTPError(status_code, message) ==
    RaisedError("DoclingHTTPError", status_code,
                <<"HTTP ", StatusText(status_code), ": ">> \o message)

\* An error that drops the response text.
text_or_default_drop(text, default) == default

\* `response.text or "Conversion failed"`.
text_or_default(text, default) == IF text # <<>> THEN text ELSE default

\* The nested document of an object: doc.get("md_content", "") or
\* doc.get("content", ""); doc.get raises when doc is no dict.
extract_document(doc) ==
    IF doc.t # "obj"
    THEN [kind |-> "raise", v |-> JNull]
    ELSE [kind |-> "value",
          v |-> Or(Get(doc, "md_content", JStr("")), Get(doc, "content", JStr("")))]

\* The branches of _extract_content for a dict.
extract_object(o) ==
    IF "document" \in DOMAIN o.f
    THEN extract_document(o.f["document"])
    ELSE [kind |-> "value", v |-> Get(o, "content", JStr(""))]

\* An extraction that knows no list format.
_extract_content_objects_only(result_data) ==
    CASE result_data.t = "obj" -> extract_object(result_data)
      [] OTHER -> [kind |-> "value", v |-> JStr("")]

\* _extract_content: the value it returns, or that it raises (AttributeError).
_extract_content(result_data) ==
    CASE result_data.t = "obj" -> extract_object(result_data)
      [] result_data.t = "list" /\ Len(result_data.items) > 0 ->
            IF result_data.items[1].t = "obj"
            THEN extract_object(result_data.items[1])
            ELSE [kind |-> "value", v |-> JStr("")]
      [] OTHER -> [kind |-> "value", v |-> JStr("")]

\* A client that lets the transport failure out as an HTTP error.
on_transport_failure_raise(text) == DoclingHTTPError(500, text)

\* convert_file: `except requests.RequestException as e`.
on_transport_failure(text) == ConvertResult(JStr(""), FALSE, ErrorText(text))

\* convert_file on a request that ended as reply.
convert_file(reply) ==
    CASE reply.kind = "RequestException" -> on_transport_failure(reply.text)
      [] reply.kind = "status" /\ reply.code # 200 ->
            DoclingHTTPError(reply.code,
                             text_or_default(reply.text, <<"Conversion failed">>))
      [] reply.kind = "status" /\ reply.code = 200 ->
            LET e == _extract_content(reply.json) IN
            IF e.kind = "raise" THEN RaisedError("AttributeError", 0, <<>>)
            ELSE IF Truthy(e.v) \/ reply.json.t \in {"obj", "list"}
            THEN ConvertResult(e.v, TRUE, NoError)
            ELSE DoclingHTTPError(200, <<"Unexpected response format: ", "result_data">>)
      [] OTHER -> RaisedError(reply.kind, 0, reply.text)

\* A submit that only asks for the key to be there.
task_id_missing_none_only(task_id) == task_id = JNull

\* convert_file_async: `if not task_id`.
task_id_missing(task_id) == ~Truthy(task_id)

\* convert_file_async on a request that ended as reply.
convert_file_async(reply) ==
    CASE reply.kind = "RequestException" -> DoclingHTTPError(500, reply.text)
      [] reply.kind = "status" /\ reply.code # 200 ->
            DoclingHTTPError(reply.code,
                             text_or_default(reply.text, <<"Async conversion failed">>))
      [] reply.kind = "status" /\ reply.code = 200 ->
            IF reply.json.t # "obj" THEN RaisedError("AttributeError", 0, <<>>)
            ELSE LET task_id == Get(reply.json, "task_id", JNull) IN
                 IF task_id_missing(task_id)
                 THEN DoclingHTTPError(200, <<"No task_id in response: ", "result_data">>)
                 ELSE ReturnedValue(task_id)
      [] OTHER -> RaisedError(reply.kind, 0, reply.text)

\* A call of the client: the request is answered and the function ends.
client_convert_file ==
    /\ clientCall = "none"
    /\ clientCall' = "convert_file"
    /\ clientRet' = convert_file(clientReply)
    /\ UNCHANGED <<clientReply, clientArg, clientUrl, submitted, polled>>

client_convert_file_async ==
    /\ clientCall = "none"
    /\ clientCall' = "convert_file_async"
    /\ clientRet' = convert_file_async(clientReply)
    /\ UNCHANGED <<clientReply, clientArg, clientUrl, submitted, polled>>

\* ---------------------------------------------- the asynchronous calls
\* The URL of a request: the endpoint and the key put after it.
NoUrl == <<"", JNull>>

\* A URL that leaves the task id out.
request_url_unkeyed(endpoint, task_id) == <<endpoint, JNull>>

\* f"{base_url}/v1/status/poll/{task_id}", f"{base_url}/v1/result/{task_id}".
request_url(endpoint, task_id) == <<endpoint, task_id>>

\* StatusResult(status, task_id, error).
StatusResult(status, task_id, error) ==
    [kind |-> "status_result", status |-> status, task_id |-> task_id,
     error |-> error]

NotPolled == [arg |-> JNull, url |-> NoUrl, status |-> JNull]

\* The task ids a caller passes to poll_status and get_result.
TaskArgs == {JStr("abc"), JStr("xyz")}

\* The bodies of the status endpoint: "status" and "error" absent or
\* present; and bodies that are no object.
PollBodies ==
    {JObj(st @@ er) :
        st \in {<<>>} \cup {[status |-> JStr(x)] : x \in {"pending", "completed", "failed"}},
        er \in {<<>>} \cup {[error |-> v] : v \in {JNull, JStr("Processing error")}}}
    \cup {JNull, JList(<<>>)}

PollReplies ==
    {HttpReply("status", 200, <<>>, b) : b \in PollBodies}
    \cup {HttpReply("status", c, t, JNull) : c \in {404, 500}, t \in ErrorBodies}
    \cup {HttpReply("RequestException", 0, t, JNull) : t \in TransportTexts}

SubmitReplies ==
    {HttpReply("status", 200, <<>>, b) : b \in TaskObjects \cup {JObj(<<>>), JList(<<>>)}}
    \cup {HttpReply("status", c, t, JNull) : c \in {404, 500}, t \in ErrorBodies}
    \cup {HttpReply("RequestException", 0, t, JNull) : t \in TransportTexts}

\* The replies of the result endpoint a session sees.
ResultBodies ==
    {JObj([content |-> JStr("done")]),
     JObj([document |-> JObj([md_content |-> JStr("Y")])]),
     JObj([document |-> JObj([md_content |-> JStr(""), content |-> JStr("X")])]),
     JObj([document |-> JNull]),
     JObj(<<>>), JStr("X"), JNull,
     JList(<<JObj([content |-> JStr("Y")])>>)}

ResultReplies ==
    {HttpReply("status", 200, <<>>, b) : b \in ResultBodies}
    \cup {HttpReply("status", c, t, JNull) : c \in {404, 500}, t \in ErrorBodies}
    \cup {HttpReply("RequestException", 0, t, JNull) : t \in TransportTexts}

\* A poll that reports no status of the body.
status_of_unknown(result_data) == JStr("unknown")

\* result_data.get("status", "unknown").
status_of(result_data) == Get(result_data, "status", JStr("unknown"))

\* poll_status(base_url, task_id) on a request that ended as reply.
poll_status(reply, task_id) ==
    CASE reply.kind = "RequestException" -> DoclingHTTPError(500, reply.text)
      [] reply.kind = "status" /\ reply.code # 200 ->
            DoclingHTTPError(reply.code,
                             text_or_default(reply.text, <<"Status poll failed">>))
      [] reply.kind = "status" /\ reply.code = 200 ->
            IF reply.json.t # "obj" THEN RaisedError("AttributeError", 0, <<>>)
            ELSE StatusResult(status_of(reply.json), task_id,
                              Get(reply.json, "error", JNull))
      [] OTHER -> RaisedError(reply.kind, 0, reply.text)

\* get_result(base_url, task_id) on a request that ended as reply; the
\* format it reads from the body is not part of what is compared here.
get_result(reply, task_id) ==
    CASE reply.kind = "RequestException" ->
            ConvertResult(JStr(""), FALSE, ErrorText(reply.text))
      [] reply.kind = "status" /\ reply.code # 200 ->
            DoclingHTTPError(reply.code,
                             text_or_default(reply.text, <<"Result retrieval failed">>))
      [] reply.kind = "status" /\ reply.code = 200 ->
            LET e == _extract_content(reply.json) IN
            IF e.kind = "raise" THEN RaisedError("AttributeError", 0, <<>>)
            ELSE IF Truthy(e.v) \/ reply.json.t \in {"obj", "list"}
            THEN ConvertResult(e.v, TRUE, NoError)
            ELSE DoclingHTTPError(200, <<"Unexpected response format: ", "result_data">>)
      [] OTHER -> RaisedError(reply.kind, 0, reply.text)

\* One call of get_result on the reply drawn for the request.
client_get_result ==
    /\ clientCall = "none"
    /\ clientReply.kind # "OSError"
    /\ clientCall' = "get_result"
    /\ clientRet' = get_result(clientReply, JStr("abc"))
    /\ clientArg' = JStr("abc")
    /\ clientUrl' = request_url("/v1/result/", JStr("abc"))
    /\ UNCHANGED <<clientReply, submitted, polled>>

\* A call of convert_file_async: the task id it returns is what the caller
\* holds from then on.
async_submit ==
    \E reply \in SubmitReplies :
        /\ clientCall' = "convert_file_async"
        /\ clientReply' = reply
        /\ clientRet' = convert_file_async(reply)
        /\ clientArg' = JNull
        /\ clientUrl' = <<"/v1/convert/file/async", JNull>>
        /\ submitted' = IF convert_file_async(reply).kind = "value"
                        THEN convert_file_async(reply).content ELSE JNull
        /\ polled' = NotPolled

\* A call of poll_status with the task id t.
async_poll(t) ==
    \E reply \in PollReplies :
        LET r == poll_status(reply, t) IN
        /\ clientCall' = "poll_status"
        /\ clientReply' = reply
        /\ clientRet' = r
        /\ clientArg' = t
        /\ clientUrl' = request_url("/v1/status/poll/", t)
        /\ polled' = IF r.kind = "status_result"
                     THEN [arg |-> t,
                           url |-> request_url("/v1/status/poll/", t),
                           status |-> r.status]
                     ELSE polled
        /\ UNCHANGED submitted

\* A call of get_result with the task id t.
async_fetch(t) ==
    \E reply \in ResultReplies :
        /\ clientCall' = "get_result"
        /\ clientReply' = reply
        /\ clientRet' = get_result(reply, t)
        /\ clientArg' = t
        /\ clientUrl' = request_url("/v1/result/", t)
        /\ UNCHANGED <<submitted, polled>>

\* ------------------------------------------------------------ main (cli.py)
Absent == "absent"

\* What main ended with: a return code, or an exception it let escape.
NotEnded == [kind |-> "none", code |-> 0, exc |-> None]
Returned(code) == [kind |-> "return", code |-> code, exc |-> None]
Raised(exc) == [kind |-> "raise", code |-> 0, exc |-> exc]

\* files_to_convert: file i of the sequence. Two files of one directory can
\* share their stem (report.pdf, report.docx).
InputFile(i) == [stem |-> (i + 1) \div 2, ext |-> IF i % 2 = 1 THEN "pdf" ELSE "docx"]
Files == 1..NumFiles

\* get_output_path: the directory of the input and input_file.stem + ".md".
get_output_path(f) == f.stem
OutputPaths == {get_output_path(InputFile(i)) : i \in Files}

\* What convert_file ends with, as main sees it: a result with success, a
\* result without (transport failure), or an exception.
ConvertOutcomes == {convert_file(rep) : rep \in ConvertReplies}

\* Contents a successful conversion can carry.
Contents == {r.content : r \in {c \in ConvertOutcomes : c.kind = "result" /\ c.success}}

\* output_file.write_text(result.content): a content that is no str raises
\* TypeError, and the file system can refuse the write (OSError).
write_text(content, fs) ==
    IF content.t # "str" THEN "TypeError" ELSE fs

\* What the loop records for a file: the file, "skipped", "ok" or "failed",
\* and whether convert_file returned a ConvertResult for it.
Recorded(i, how, returned) == [file |-> i, how |-> how, result |-> returned]

\* The body of the inner try: "ok" when convert_file returned a result with
\* success and write_text wrote it; "failed" on a result without success
\* (the else branch) and on any exception (`except Exception`).
file_outcome(r, fs) ==
    IF r.kind = "result" /\ r.success /\ write_text(r.content, fs) = "ok"
    THEN "ok" ELSE "failed"

\* A loop that does not count a conversion that raised.
failure_count_results_only(r) == IF r.kind = "result" THEN 1 ELSE 0

\* A loop that counts no failure.
failure_count_none(r) == 0

\* `failed_count += 1`, in the else branch and in the except clause alike.
failure_count(r) == 1

\* A loop that a conversion error leaves (break).
after_failure_abort(r) == "break"

\* After a failure the for loop goes on with the next file: neither branch
\* ends in a break or a raise.
after_failure(r) == "continue"

\* A loop that converts a file whatever is at its output path.
skip_file_never(exists, ow) == FALSE

\* `if output_file.exists() and not args.overwrite`.
skip_file(exists, ow) == exists /\ ~ow

\* A loop that stays on the file it has handled.
next_index_stay(i) == i

\* enumerate(files_to_convert, 1): the file after file i.
next_index(i) == i + 1

\* output_file.write_text(result.content).
written_content(r) == r.content.s

\* What main holds of a convert_file that ended as r: whether it returned a
\* result with success, and the content of that result.
NoResult == [success |-> FALSE, content |-> ""]
ResultSeen(r) ==
    IF r.kind = "result" /\ r.success
    THEN [success |-> TRUE,
          content |-> IF r.content.t = "str" THEN r.content.s ELSE "(no str)"]
    ELSE NoResult

\* Spinner(): not running, no thread, nothing on the line.
NoSpinner == [running |-> FALSE, prefix |-> 0, threads |-> 0, shown |-> 0]

\* A threading.Thread.start() that fails.
thread_start_fails == "RuntimeError"

\* self.thread.start() starts the thread and returns.
thread_start == "started"

\* Spinner.start(prefix) for file i: the fields are set and one more thread
\* runs _spin.
spinner_start(sp, i) ==
    [sp EXCEPT !.running = TRUE, !.prefix = i, !.threads = @ + 1]

\* Spinner.stop(): running is cleared, join(timeout=0.5) returns whether or
\* not the thread has ended, the line is cleared.
spinner_stop(sp) == [sp EXCEPT !.running = FALSE, !.shown = 0]

\* What one step of the loop was given: the file system's answers to stat,
\* exists and mkdir; how a conversion and its write ended; an interrupt;
\* how stop() ended.
Input(kind, fs, exists, how, out) ==
    [kind |-> kind, fs |-> fs, exists |-> exists, how |-> how, out |-> out]

\* A with statement whose body runs although __enter__ raised.
enter_body_always(out) == TRUE

\* The body of the with-block runs only when __enter__, that is start(),
\* returned.
enter_body(out) == out = "returned"

\* An __exit__ that returns True.
exit_return_suppress == TRUE

\* __exit__ returns False: the exception leaving the body is not suppressed.
exit_return == FALSE

\* A return code that asks for at least one converted file.
exit_code_needs_success(ok, skipped, failed) ==
    IF failed > 0 THEN 1
    ELSE IF ok > 0 THEN 0
    ELSE 1

\* The return code of main after the summary.
exit_code(ok, skipped, failed) ==
    IF failed > 0 THEN 1
    ELSE IF ok = 0 /\ skipped > 0 THEN 0
    ELSE IF ok > 0 THEN 0
    ELSE 1

\* `with DoclingContainer(...) as container:` calls __enter__, which calls
\* start() with its default timeout.
main_enter ==
    /\ mainPc = "with"
    /\ start_ps("m1", DefaultStartTimeout)
    /\ mainPc' = "enter"
    /\ UNCHANGED <<overwrite, idx, disk, success_count, skipped_count,
                   failed_count, requests, outcomes, pending, exitStatus,
                   interruptedAt>>

\* start() has ended, and with it the clock of its health wait. If it
\* returned, the body of the with-block begins; an exception of __enter__
\* leaves the with statement without __exit__ and, not being a
\* KeyboardInterrupt, leaves main.
main_entered ==
    /\ mainPc = "enter"
    /\ pc["m1"] = "idle"
    /\ IF enter_body(result["m1"].out)
       THEN /\ mainPc' = "loop"
            /\ idx' = 1
            /\ UNCHANGED exitStatus
       ELSE /\ mainPc' = "done"
            /\ exitStatus' = Raised(result["m1"].out)
            /\ UNCHANGED idx
    /\ timeout' = [timeout EXCEPT !["m1"] = 0]
    /\ elapsed' = [elapsed EXCEPT !["m1"] = 0]
    /\ UNCHANGED <<engineVars, container_id, pc, sweep, result, histVars,
                   overwrite, disk, success_count,
                   skipped_count, failed_count, requests, outcomes, pending,
                   interruptedAt>>

\* KeyboardInterrupt while start() runs inside __enter__: __exit__ is not
\* called, `except KeyboardInterrupt` returns 130.
main_interrupt_start ==
    /\ mainPc = "enter"
    /\ pc["m1"] \in {"sweep", "run", "wait"}
    /\ interruptedAt' = pc["m1"]
    /\ pc' = [pc EXCEPT !["m1"] = "idle"]
    /\ result' = [result EXCEPT !["m1"] = Outcome("start", "KeyboardInterrupt", 0)]
    /\ lifecycle' = [lifecycle EXCEPT !["m1"] = "Error"]
    /\ mainPc' = "done"
    /\ exitStatus' = Returned(130)
    /\ UNCHANGED <<engineVars, container_id, timeout, elapsed, sweep, starts,
                   stops, listed, stopIssued, stopOk, runIssued, lastReply,
                   cycles, conflict, raced, overwrite, idx, disk, success_count, skipped_count,
                   failed_count, requests, outcomes, pending>>

\* The head of the for loop and the body up to the conversion request:
\* stat() and mkdir() are outside the inner try, an OSError of theirs leaves
\* the with-block.
main_loop ==
    /\ mainPc = "loop"
    /\ IF idx > NumFiles
       THEN /\ mainPc' = "exit"
            /\ UNCHANGED <<idx, skipped_count, requests, outcomes, pending,
                           spinner, inputs>>
       ELSE LET output_file == get_output_path(InputFile(idx)) IN
            \E fs \in {"ok", "OSError"} :
            IF fs = "OSError"
            THEN /\ pending' = "OSError"
                 /\ mainPc' = "exit"
                 /\ inputs' = Append(inputs, Input("stat", fs, disk[output_file] # Absent, "", ""))
                 /\ UNCHANGED <<idx, skipped_count, requests, outcomes, spinner>>
            ELSE IF skip_file(disk[output_file] # Absent, overwrite)
            THEN /\ skipped_count' = skipped_count + 1
                 /\ outcomes' = Append(outcomes, Recorded(idx, "skipped", FALSE))
                 /\ idx' = next_index(idx)
                 /\ inputs' = Append(inputs, Input("stat", fs, disk[output_file] # Absent, "", ""))
                 /\ UNCHANGED <<mainPc, requests, pending, spinner>>
            ELSE IF ~quiet /\ thread_start # "started"
            THEN /\ pending' = thread_start
                 /\ mainPc' = "exit"
                 /\ inputs' = Append(inputs, Input("stat", fs, disk[output_file] # Absent, "", ""))
                 /\ UNCHANGED <<idx, skipped_count, requests, outcomes, spinner>>
            ELSE /\ requests' = Append(requests, idx)
                 /\ mainPc' = "convert"
                 /\ spinner' = IF quiet THEN spinner ELSE spinner_start(spinner, idx)
                 /\ inputs' = Append(inputs, Input("stat", fs, disk[output_file] # Absent, "", ""))
                 /\ UNCHANGED <<idx, skipped_count, outcomes, pending>>
    /\ UNCHANGED <<engineVars, mgrVars, histVars, overwrite, disk, success_count,
                   failed_count, exitStatus, interruptedAt, quiet, written,
                   lastResult>>

\* convert_file has ended: the result is written and counted; `except
\* Exception` counts a failure, also when write_text raised.
main_convert ==
    LET output_file == get_output_path(InputFile(idx)) IN
    /\ mainPc = "convert"
    /\ \E r \in ConvertOutcomes : \E fs \in {"ok", "OSError"} :
        /\ (fs = "OSError" => r.kind = "result" /\ r.success)
        /\ outcomes' = Append(outcomes,
                           Recorded(idx, file_outcome(r, fs), r.kind = "result"))
        /\ spinner' = IF quiet THEN spinner ELSE spinner_stop(spinner)
        /\ lastResult' = ResultSeen(r)
        /\ IF file_outcome(r, fs) = "ok"
           THEN /\ disk' = [disk EXCEPT ![output_file] = written_content(r)]
                /\ written' = Append(written, output_file)
                /\ inputs' = Append(inputs, Input("convert", "", FALSE, "ok", ""))
                /\ success_count' = success_count + 1
                /\ idx' = next_index(idx)
                /\ mainPc' = "loop"
                /\ UNCHANGED failed_count
           ELSE /\ failed_count' = failed_count + failure_count(r)
                /\ inputs' = Append(inputs, Input("convert", "", FALSE, "failed", ""))
                /\ IF after_failure(r) = "continue"
                   THEN idx' = next_index(idx) /\ mainPc' = "loop"
                   ELSE idx' = idx /\ mainPc' = "exit"
                /\ UNCHANGED <<disk, success_count, written>>
    /\ UNCHANGED <<engineVars, mgrVars, histVars, overwrite, skipped_count,
                   requests, pending, exitStatus, interruptedAt, quiet>>

\* KeyboardInterrupt in the body of the with-block, between two files or
\* while a conversion request is in flight: it is no Exception, so it
\* leaves the loop and the with-block.
main_interrupt_body ==
    /\ mainPc \in {"loop", "convert"}
    /\ pending' = "KeyboardInterrupt"
    /\ interruptedAt' = mainPc
    /\ mainPc' = "exit"
    /\ inputs' = Append(inputs, Input("interrupt", "", FALSE, "", ""))
    /\ UNCHANGED <<engineVars, mgrVars, histVars, overwrite, idx, disk,
                   success_count, skipped_count, failed_count, requests,
                   outcomes, exitStatus, quiet, spinner, written, lastResult>>

\* __exit__: stop(), then the pending exception goes on unless __exit__
\* returned true; `except KeyboardInterrupt` returns 130, any other
\* exception leaves main; without one main returns the code of the counts.
main_exit ==
    /\ mainPc = "exit"
    /\ stop("m1")
    /\ mainPc' = "done"
    /\ exitStatus' =
         IF result'["m1"].out # "returned" THEN Raised(result'["m1"].out)
         ELSE IF pending # None /\ ~exit_return
              THEN IF pending = "KeyboardInterrupt"
                   THEN Returned(130) ELSE Raised(pending)
              ELSE Returned(exit_code(success_count, skipped_count, failed_count))
    /\ inputs' = Append(inputs, Input("exit", "", FALSE, "", result'["m1"].out))
    /\ UNCHANGED <<overwrite, idx, disk, success_count, skipped_count,
                   failed_count, requests, outcomes, pending, interruptedAt,
                   quiet, spinner, written, lastResult>>

\* One iteration of _spin in a thread of the spinner: while running it
\* prints the line of the prefix; when running is false the thread ends.
spinner_spin ==
    /\ spinner.threads > 0
    /\ spinner' = IF spinner.running
                  THEN [spinner EXCEPT !.shown = spinner.prefix]
                  ELSE [spinner EXCEPT !.threads = @ - 1]
    /\ UNCHANGED <<engineVars, mgrVars, histVars, cliVars, quiet, inputs,
                   written, lastResult>>

\* ------------------------------------------------- the manager on its own
\* DoclingContainer.__init__ for every manager, and the containers earlier
\* runs have left behind; the engine never has two containers on one port.
InitManagers ==
    /\ engineUp \in BOOLEAN
    /\ port \in {f \in [Managers -> Ports] : f["m1"] = DefaultPort}
    /\ running \in {r \in SUBSET (StaleNames \cup ForeignNames) :
                      \A a, b \in r : StalePort(a) = StalePort(b) => a = b}
    /\ container_id = [m \in Managers |-> None]
    /\ pc = [m \in Managers |-> "idle"]
    /\ timeout = [m \in Managers |-> 0]
    /\ elapsed = [m \in Managers |-> 0]
    /\ sweep = [m \in Managers |-> {}]
    /\ result = [m \in Managers |-> Outcome("init", "returned", 0)]
    /\ lifecycle = [m \in Managers |-> "Uninitialized"]
    /\ starts = [m \in Managers |-> 0]
    /\ stops = [m \in Managers |-> 0]
    /\ listed = [m \in Managers |-> NoListing]
    /\ stopIssued = [m \in Managers |-> {}]
    /\ stopOk = [m \in Managers |-> {}]
    /\ runIssued = [m \in Managers |-> 0]
    /\ lastReply = [m \in Managers |-> NoReply]
    /\ cycles = [m \in Managers |-> 0]
    /\ conflict = [m \in Managers |-> NoName]
    /\ raced = [m \in Managers |-> FALSE]
    /\ ready = [m \in Managers |-> NotProbed]

\* main() has not been called.
InitNoMain ==
    /\ mainPc = "off"
    /\ overwrite = FALSE
    /\ idx = 0
    /\ disk = [o \in {} |-> Absent]
    /\ success_count = 0
    /\ skipped_count = 0
    /\ failed_count = 0
    /\ requests = <<>>
    /\ outcomes = <<>>
    /\ pending = None
    /\ exitStatus = NotEnded
    /\ interruptedAt = None
    /\ quiet = TRUE
    /\ spinner = NoSpinner
    /\ inputs = <<>>
    /\ written = <<>>
    /\ lastResult = NoResult

\* Nothing has been submitted or polled.
InitNoSession ==
    /\ clientArg = JNull
    /\ clientUrl = NoUrl
    /\ submitted = JNull
    /\ polled = NotPolled

\* No call of the conversion client is under way.
InitNoClient ==
    /\ clientCall = "none"
    /\ clientReply = NoRequest
    /\ clientRet = NotCalled
    /\ InitNoSession

Init == InitManagers /\ InitNoMain /\ InitNoClient

\* Any sequence of start(T) and stop() calls on one manager.
Next ==
    \/ (\E T \in 0..MaxTimeout : start_ps("m1", T)) /\ UNCHANGED <<cliVars, clientVars, probeVars, runVars>>
    \/ cleanup_stop("m1") /\ UNCHANGED <<cliVars, clientVars, probeVars, runVars>>
    \/ start_run("m1") /\ UNCHANGED <<cliVars, clientVars, probeVars, runVars>>
    \/ wait_probe("m1") /\ UNCHANGED <<cliVars, clientVars, probeVars, runVars>>
    \/ wait_timeout("m1") /\ UNCHANGED <<cliVars, clientVars, probeVars, runVars>>
    \/ stop("m1") /\ UNCHANGED <<cliVars, clientVars, probeVars, runVars>>

Spec == Init /\ [][Next]_vars

\* The same, with is_ready() called between the calls, on a host whose
\* engine runs and where no earlier run of the tool left a container; a
\* container of somebody else may hold the port.
InitReady ==
    /\ Init
    /\ engineUp
    /\ running \subseteq ForeignNames
    /\ port["m2"] = DefaultPort

NextReady ==
    \/ Next
    \/ is_ready("m1") /\ UNCHANGED <<cliVars, clientVars, runVars>>

SpecReady == InitReady /\ [][NextReady]_vars

\* --------------------------------------------------- one run of the command
\* main at line 717: the runtime was found (detect_runtime), the input
\* files are known, the counters are zero; earlier runs may have left
\* containers and output files behind. The run is quiet (--quiet): main
\* makes no call of the spinner; SpecSpin is the run with the spinner.
InitCli ==
    /\ InitManagers
    /\ engineUp
    /\ port["m2"] = DefaultPort
    /\ mainPc = "with"
    /\ overwrite \in BOOLEAN
    /\ idx = 0
    /\ disk \in [OutputPaths -> {Absent, "old"}]
    /\ success_count = 0
    /\ skipped_count = 0
    /\ failed_count = 0
    /\ requests = <<>>
    /\ outcomes = <<>>
    /\ pending = None
    /\ exitStatus = NotEnded
    /\ interruptedAt = None
    /\ quiet = TRUE
    /\ spinner = NoSpinner
    /\ inputs = <<>>
    /\ written = <<>>
    /\ lastResult = NoResult
    /\ InitNoClient

NextCli ==
    \/ main_enter /\ UNCHANGED <<clientVars, probeVars, runVars>>
    \/ cleanup_stop("m1") /\ mainPc = "enter" /\ UNCHANGED <<cliVars, clientVars, probeVars, runVars>>
    \/ start_run("m1") /\ mainPc = "enter" /\ UNCHANGED <<cliVars, clientVars, probeVars, runVars>>
    \/ wait_probe("m1") /\ mainPc = "enter" /\ UNCHANGED <<cliVars, clientVars, probeVars, runVars>>
    \/ wait_timeout("m1") /\ mainPc = "enter" /\ UNCHANGED <<cliVars, clientVars, probeVars, runVars>>
    \/ main_entered /\ UNCHANGED <<clientVars, probeVars, runVars>>
    \/ main_interrupt_start /\ UNCHANGED <<clientVars, probeVars, runVars>>
    \/ main_loop /\ UNCHANGED <<clientVars, probeVars>>
    \/ main_convert /\ UNCHANGED <<clientVars, probeVars>>
    \/ main_interrupt_body /\ UNCHANGED <<clientVars, probeVars>>
    \/ main_exit /\ UNCHANGED <<clientVars, probeVars>>

SpecCli == InitCli /\ [][NextCli]_vars

Ok200 == [kind |-> "status", code |-> 200]

\* ------------------------------------------------- the run with its spinner
\* main at line 730: start() returned on the first probe of a clean host,
\* `spinner = Spinner()` was made, the loop is about to begin; the run is
\* quiet or not.
InitSpin ==
    /\ engineUp = TRUE
    /\ port = [m \in Managers |-> DefaultPort]
    /\ running = {ContainerName("m1")}
    /\ container_id = [m \in Managers |-> IF m = "m1" THEN "m1" ELSE None]
    /\ pc = [m \in Managers |-> "idle"]
    /\ timeout = [m \in Managers |-> 0]
    /\ elapsed = [m \in Managers |-> 0]
    /\ sweep = [m \in Managers |-> {}]
    /\ result = [m \in Managers |->
                   IF m = "m1" THEN Outcome("start", "returned", 0)
                   ELSE Outcome("init", "returned", 0)]
    /\ lifecycle = [m \in Managers |->
                      IF m = "m1" THEN "Healthy" ELSE "Uninitialized"]
    /\ starts = [m \in Managers |-> IF m = "m1" THEN 1 ELSE 0]
    /\ stops = [m \in Managers |-> 0]
    /\ listed = [m \in Managers |->
                   IF m = "m1" THEN [ok |-> TRUE, names |-> {}] ELSE NoListing]
    /\ stopIssued = [m \in Managers |-> {}]
    /\ stopOk = [m \in Managers |-> {}]
    /\ runIssued = [m \in Managers |-> IF m = "m1" THEN 1 ELSE 0]
    /\ lastReply = [m \in Managers |-> IF m = "m1" THEN Ok200 ELSE NoReply]
    /\ cycles = [m \in Managers |-> 0]
    /\ conflict = [m \in Managers |-> NoName]
    /\ raced = [m \in Managers |-> FALSE]
    /\ ready = [m \in Managers |-> NotProbed]
    /\ mainPc = "loop"
    /\ overwrite \in BOOLEAN
    /\ idx = 1
    /\ disk \in [OutputPaths -> {Absent, "old"}]
    /\ success_count = 0
    /\ skipped_count = 0
    /\ failed_count = 0
    /\ requests = <<>>
    /\ outcomes = <<>>
    /\ pending = None
    /\ exitStatus = NotEnded
    /\ interruptedAt = None
    /\ quiet \in BOOLEAN
    /\ spinner = NoSpinner
    /\ inputs = <<>>
    /\ written = <<>>
    /\ lastResult = NoResult
    /\ InitNoClient

NextSpin ==
    \/ main_loop /\ UNCHANGED <<clientVars, probeVars>>
    \/ main_convert /\ UNCHANGED <<clientVars, probeVars>>
    \/ main_interrupt_body /\ UNCHANGED <<clientVars, probeVars>>
    \/ main_exit /\ UNCHANGED <<clientVars, probeVars>>
    \/ spinner_spin /\ UNCHANGED <<clientVars, probeVars>>

SpecSpin == InitSpin /\ [][NextSpin]_vars

\* ------------------------------------------------------------ two managers
\* Two managers on the same host port (two runs of the tool on one host),
\* each started once, with the shortest timeout that lets it probe, and
\* stopped once; their calls interleave command by command.
InitPair ==
    InitManagers /\ engineUp /\ port["m2"] = port["m1"] /\ InitNoMain /\ InitNoClient

NextPair ==
    \/ \E m \in Managers : starts[m] = 0 /\ start_ps(m, 1) /\ UNCHANGED <<cliVars, clientVars, probeVars, runVars>>
    \/ \E m \in Managers : cleanup_stop(m) /\ UNCHANGED <<cliVars, clientVars, probeVars, runVars>>
    \/ \E m \in Managers : start_run(m) /\ UNCHANGED <<cliVars, clientVars, probeVars, runVars>>
    \/ \E m \in Managers : wait_probe(m) /\ UNCHANGED <<cliVars, clientVars, probeVars, runVars>>
    \/ \E m \in Managers : wait_timeout(m) /\ UNCHANGED <<cliVars, clientVars, probeVars, runVars>>
    \/ \E m \in Managers : stops[m] = 0 /\ stop(m) /\ UNCHANGED <<cliVars, clientVars, probeVars, runVars>>

SpecPair == InitPair /\ [][NextPair]_vars

\* ----------------------------------------------- one call of the client
\* A request of the client that ends in any of the ways it can, and the
\* function called on it; no manager and no main are involved.
InitClient ==
    /\ InitManagers
    /\ engineUp
    /\ running = {}
    /\ port = [m \in Managers |-> DefaultPort]
    /\ InitNoMain
    /\ clientCall = "none"
    /\ clientReply \in ConvertReplies
    /\ clientRet = NotCalled
    /\ InitNoSession

NextClient ==
    \/ client_convert_file /\ UNCHANGED <<engineVars, mgrVars, histVars, cliVars, probeVars, runVars>>
    \/ client_convert_file_async /\ UNCHANGED <<engineVars, mgrVars, histVars, cliVars, probeVars, runVars>>
    \/ client_get_result /\ UNCHANGED <<engineVars, mgrVars, histVars, cliVars, probeVars, runVars>>

SpecClient == InitClient /\ [][NextClient]_vars

\* ------------------------------------------------ the asynchronous calls
\* Any sequence of submit, poll and fetch calls of one caller, which passes
\* the task id it holds or another one.
InitAsync ==
    /\ InitManagers
    /\ engineUp
    /\ running = {}
    /\ port = [m \in Managers |-> DefaultPort]
    /\ InitNoMain
    /\ InitNoClient

NextAsync ==
    \/ async_submit /\ UNCHANGED <<engineVars, mgrVars, histVars, cliVars, probeVars, runVars>>
    \/ (\E t \in TaskArgs : async_poll(t))
          /\ UNCHANGED <<engineVars, mgrVars, histVars, cliVars, probeVars, runVars>>
    \/ (\E t \in TaskArgs : async_fetch(t))
          /\ UNCHANGED <<engineVars, mgrVars, histVars, cliVars, probeVars, runVars>>

SpecAsync == InitAsync /\ [][NextAsync]_vars

\* ================================================================ properties
Own == ContainerName("m1")
StartEnded(m) == result[m].call = "start" /\ result[m].out # "running"

\* C1: once start() has returned inside the with-block of main, every way
\* out of the body (the loop ran to its end, an exception, a user interrupt)
\* goes through one stop command for the manager's own container, which is
\* no longer running if that command succeeded, and the exception goes on:
\* an OSError leaves main, a KeyboardInterrupt reaches main's handler (130).
C1_ScopedStop ==
    (mainPc = "done" /\ idx >= 1) =>
        /\ stops["m1"] = 1
        /\ result["m1"].call = "stop" /\ result["m1"].out = "returned"
        /\ (result["m1"].rc = 0 => Own \notin running)
        /\ (pending = "OSError" => exitStatus = Raised("OSError"))
        /\ (pending = "KeyboardInterrupt" => exitStatus = Returned(130))
        /\ (pending = None => exitStatus.kind = "return" /\ exitStatus.code \in {0, 1})

C1_Witness ==
    /\ mainPc = "done"
    /\ pending = "OSError"
    /\ exitStatus = Raised("OSError")
    /\ stops["m1"] = 1
    /\ Own \notin running
    /\ requests # <<>>

\* C2: when the container was launched and the service never became healthy,
\* main ends with the TimeoutError and a stop command for the container has
\* been issued.
C2_TimeoutTeardown ==
    (mainPc = "done" /\ exitStatus = Raised("TimeoutError")) => stops["m1"] >= 1

\* C3: a user interrupt at any point of the run makes main return 130, and
\* when the service container had been launched a stop command for it has
\* been issued; no request follows the interrupt.
C3_InterruptTeardown ==
    (mainPc = "done" /\ interruptedAt # None) =>
        /\ exitStatus = Returned(130)
        /\ (container_id["m1"] # None => stops["m1"] >= 1)

\* C4: stop() never raises, whatever the state of the manager and of the
\* engine.
C4_StopNeverRaises ==
    \A m \in Managers : result[m].call = "stop" => result[m].out = "returned"

\* C5 (as claimed): a start() that failed at the launch, by a non-zero return
\* code or by an engine that is unavailable, has issued the run command
\* exactly once and no health probe, and has not set container_id.
C5_LaunchFailureOnce ==
    \A m \in Managers :
        (result[m].call = "start"
            /\ result[m].out \in {"CalledProcessError", "FileNotFoundError"}) =>
            /\ runIssued[m] = 1
            /\ lastReply[m] = NoReply
            /\ (starts[m] = 1 => container_id[m] = None)

\* C5 (amended): no start() issues the run command twice; a start() that
\* failed at the launch raised at once, after exactly one run command when
\* the command returned non-zero and after none when the engine is
\* unavailable (the listing of the sweep raises first); it has issued no
\* health probe and has not set container_id.
C5_LaunchFailureAtMostOnce ==
    \A m \in Managers :
        /\ runIssued[m] <= 1
        /\ (result[m].call = "start"
              /\ result[m].out \in {"CalledProcessError", "FileNotFoundError"}) =>
              /\ pc[m] = "idle"
              /\ runIssued[m] = (IF result[m].out = "CalledProcessError" THEN 1 ELSE 0)
              /\ lastReply[m] = NoReply
              /\ (starts[m] = 1 => container_id[m] = None)

C5_Witness ==
    /\ result["m1"] = Outcome("start", "CalledProcessError", 1)
    /\ runIssued["m1"] = 1
    /\ conflict["m1"] = NoName
    /\ container_id["m1"] = None

\* C6: after the launch, start() ends normally exactly when a probe has
\* answered 200; a probe that answers otherwise or raises never ends it; it
\* raises TimeoutError only once the timeout has elapsed without a 200.
C6_HealthWait ==
    \A m \in Managers :
        /\ (StartEnded(m) /\ result[m].out = "returned") => lastReply[m] = Ok200
        /\ (result[m].call = "start" /\ lastReply[m] = Ok200) =>
              result[m].out = "returned"
        /\ (StartEnded(m) /\ lastReply[m] # NoReply /\ lastReply[m] # Ok200) =>
              result[m].out = "TimeoutError"
        /\ (StartEnded(m) /\ result[m].out = "TimeoutError") =>
              ~(elapsed[m] < timeout[m])
        /\ (pc[m] = "wait" /\ elapsed[m] < timeout[m]) => ENABLED wait_probe(m)

\* Healthy at the third probe, after two that failed.
C6_Witness ==
    /\ result["m1"] = Outcome("start", "returned", 0)
    /\ lastReply["m1"] = Ok200
    /\ elapsed["m1"] >= 2 * PollInterval
    /\ elapsed["m1"] < timeout["m1"]

\* C7: the TimeoutError of start(T) is raised between T and T + one poll
\* interval after the health wait began.
C7_TimeoutWindow ==
    \A m \in Managers :
        (StartEnded(m) /\ result[m].out = "TimeoutError") =>
            /\ timeout[m] <= elapsed[m]
            /\ elapsed[m] <= timeout[m] + PollInterval

\* C8: when the run command is issued, a stop command has been issued for
\* every instance the listing named, whatever the return codes of these stop
\* commands; and with the engine available no failure of the listing or of a
\* stop keeps start() from issuing the run command.
C8_SweepBeforeLaunch ==
    \A m \in Managers :
        /\ (pc[m] = "run" \/ runIssued[m] >= 1) =>
              /\ stopIssued[m] = listed[m].names
              /\ sweep[m] = {}
        /\ pc[m] = "sweep" => sweep[m] = listed[m].names \ stopIssued[m]
        /\ (StartEnded(m) /\ engineUp) => runIssued[m] = 1

\* Two stale instances were listed, the stop of one failed, the launch went on.
C8_Witness ==
    /\ pc["m1"] = "wait"
    /\ Cardinality(listed["m1"].names) = 2
    /\ stopOk["m1"] # stopIssued["m1"]
    /\ Own \in running

\* The containers of this tool that are bound to host port p.
ToolOccupants(p) == {n \in Occupants(p) : n.prefix = ToolPrefix}
PortExclusive == \A p \in Ports : Cardinality(ToolOccupants(p)) <= 1

\* C9 (as claimed): at most one container of this tool is bound to a host
\* port, and a start() that listed the stale instances and stopped every one
\* of them does not find its port held by a container of this tool when it
\* launches, also when two managers of one port are started interleaved.
C9_NoLaunchConflict ==
    /\ PortExclusive
    /\ \A m \in Managers :
          (listed[m].ok /\ stopOk[m] = listed[m].names) =>
              conflict[m].prefix # ToolPrefix

\* C9 (amended): at most one container of this tool is bound to a host port;
\* a launch finds its port held by a container of this tool only if the
\* listing failed, or the stop command issued for that container failed, or
\* another manager launched on the port between the listing and the launch.
C9_AtMostOnePerPort ==
    /\ PortExclusive
    /\ \A m \in Managers :
          conflict[m].prefix = ToolPrefix =>
              \/ ~listed[m].ok
              \/ conflict[m] \in stopIssued[m] \ stopOk[m]
              \/ raced[m]

\* Started one after the other: the second manager has stopped the
\* container of the first, which held the port, and a leaked one, and has
\* launched on the free port.
C9_Witness ==
    /\ pc["m2"] = "wait"
    /\ conflict["m2"] = NoName
    /\ Cardinality(stopOk["m2"]) = 2
    /\ Own \in stopOk["m2"]
    /\ lifecycle["m1"] = "Healthy"
    /\ ToolOccupants(DefaultPort) = {ContainerName("m2")}

\* C10: Stopped and Error are terminal: a manager that was stopped, or whose
\* start() failed, never starts again.
C10_TerminalStates ==
    [][\A m \in Managers :
          lifecycle[m] \in {"Stopped", "Error"} =>
              lifecycle'[m] \in {"Stopped", "Error"}]_vars

\* ------------------------------------------------------------ the batch loop
\* The records of the loop with a given outcome, and those for which
\* convert_file returned a ConvertResult.
Count(how) == Cardinality({k \in 1..Len(outcomes) : outcomes[k].how = how})
ResultsReturned == Cardinality({k \in 1..Len(outcomes) : outcomes[k].result})

\* start() returned, the loop went through every file, no exception and no
\* interrupt left the with-block, and main returned.
BatchCompleted ==
    /\ mainPc = "done"
    /\ idx > NumFiles
    /\ pending = None
    /\ exitStatus.kind = "return"

\* Every file was sent to the service (none was skipped).
AllConverted == Len(requests) = NumFiles

\* A file is written only by a conversion of this run.
Untouched == \A o \in DOMAIN disk : disk[o] \in {Absent, "old"}

\* C11 (as claimed): a run that started the manager, converted the N files
\* and released the manager has produced exactly N ConvertResults, one per
\* file, and exactly one stop invocation, whatever conversions failed.
C11_ResultPerFile ==
    (BatchCompleted /\ AllConverted) =>
        /\ ResultsReturned = NumFiles
        /\ stops["m1"] = 1

\* C11 (amended): such a run has recorded exactly one outcome per file, each
\* counted as a success or as a failure, and exactly one stop invocation;
\* convert_file returned a ConvertResult for the files that succeeded or
\* failed in transport, and none for a file whose conversion raised (a
\* non-200 response), which is counted as a failure all the same.
C11_OutcomePerFile ==
    (BatchCompleted /\ AllConverted) =>
        /\ Len(outcomes) = NumFiles
        /\ \A k \in 1..Len(outcomes) :
              /\ outcomes[k].file = k
              /\ outcomes[k].how \in {"ok", "failed"}
              /\ (~outcomes[k].result => outcomes[k].how = "failed")
        /\ success_count + failed_count = NumFiles
        /\ ResultsReturned <= NumFiles
        /\ stops["m1"] = 1
        /\ result["m1"].call = "stop"

\* Healthy after two poll cycles; the first conversion raised, the second
\* returned a failed result; one stop.
C11_Witness ==
    /\ BatchCompleted /\ AllConverted
    /\ cycles["m1"] = 2
    /\ lastReply["m1"] = Ok200
    /\ lifecycle["m1"] = "Stopped"
    /\ outcomes[1] = Recorded(1, "failed", FALSE)
    /\ outcomes[2] = Recorded(2, "failed", TRUE)
    /\ failed_count = 2
    /\ stops["m1"] = 1

\* C12: a conversion error on a file (a result without success, or any
\* exception raised while converting it) is recorded as exactly one failure
\* for that file and does not end the batch: the loop leaves the with-block
\* without a pending exception only after it has gone through every file,
\* each of them recorded once, in order.
C12_FailureDoesNotAbort ==
    /\ failed_count = Count("failed")
    /\ success_count = Count("ok")
    /\ skipped_count = Count("skipped")
    /\ \A k \in 1..Len(outcomes) : outcomes[k].file = k
    /\ mainPc \in {"loop", "convert"} => Len(outcomes) = idx - 1
    /\ (mainPc \in {"exit", "done"} /\ idx >= 1 /\ pending = None) =>
          Len(outcomes) = NumFiles

\* The first file failed by an exception, the second was converted.
C12_Witness ==
    /\ BatchCompleted
    /\ Len(outcomes) = NumFiles
    /\ outcomes[1] = Recorded(1, "failed", FALSE)
    /\ outcomes[NumFiles].how = "ok"
    /\ failed_count = 1

\* C13: a conversion request is issued only after start() returned on a
\* health probe answered 200 and before the manager's stop; when start()
\* fails, main ends with no request issued and no output file written.
C13_RequestsOnlyWhenHealthy ==
    /\ [](/\ requests # <<>> =>
               /\ lifecycle["m1"] \in {"Healthy", "Stopped"}
               /\ lastReply["m1"] = Ok200
          /\ (mainPc = "convert" \/ (mainPc = "loop" /\ idx <= NumFiles)) =>
               /\ lifecycle["m1"] = "Healthy"
               /\ stops["m1"] = 0
          /\ (mainPc = "done" /\ idx = 0) =>
               /\ lifecycle["m1"] = "Error"
               /\ requests = <<>>
               /\ outcomes = <<>>
               /\ Untouched)
    /\ [][(lifecycle["m1"] # "Healthy" \/ stops["m1"] >= 1) =>
              (requests' = requests /\ disk' = disk)]_vars

\* start() failed on the health timeout: main has ended without a request.
C13_Witness ==
    /\ mainPc = "done"
    /\ exitStatus = Raised("TimeoutError")
    /\ requests = <<>>
    /\ Untouched
    /\ \E o \in DOMAIN disk : disk[o] = Absent

\* C14: for a batch that ran to completion main returns a non-zero status
\* exactly when at least one file failed, and zero when every file was
\* converted or skipped, all of them skipped included.
C14_ExitStatus ==
    BatchCompleted =>
        /\ (exitStatus.code # 0) <=> (Count("failed") >= 1)
        /\ (Count("ok") + Count("skipped") = NumFiles) => exitStatus.code = 0

\* Every file was skipped: the status is zero.
C14_Witness ==
    /\ BatchCompleted
    /\ Count("skipped") = NumFiles
    /\ success_count = 0
    /\ exitStatus = Returned(0)

\* ------------------------------------------------------ the conversion client
\* The call under way is f and its request was answered 200.
Answered200(f) ==
    /\ clientCall = f
    /\ clientReply.kind = "status"
    /\ clientReply.code = 200

\* The call under way is f and its request was answered with another status.
AnsweredNot200(f) ==
    /\ clientCall = f
    /\ clientReply.kind = "status"
    /\ clientReply.code # 200

\* The six response shapes that carry the content x.
SixShapes(x) ==
    LET base == {JObj([document |-> JObj([md_content |-> JStr(x)])]),
                 JObj([document |-> JObj([content |-> JStr(x)])]),
                 JObj([content |-> JStr(x)])}
    IN base \cup {JList(<<b>>) : b \in base}

\* C15: for every non-empty content X, a 200 response to convert_file whose
\* body has one of the six shapes carrying X gives a successful result whose
\* content is exactly X.
C15_SixShapes ==
    \A x \in Texts :
        (Answered200("convert_file") /\ clientReply.json \in SixShapes(x)) =>
            clientRet = ConvertResult(JStr(x), TRUE, NoError)

\* The nested fallback field, wrapped in a list.
C15_Witness ==
    /\ Answered200("convert_file")
    /\ clientReply.json = JList(<<JObj([document |-> JObj([content |-> JStr("Y")])])>>)
    /\ clientRet.success
    /\ clientRet.content = JStr("Y")

\* A field of an object as a string, an absent field being the empty one.
StringField(o, key) == IF key \in DOMAIN o.f THEN o.f[key].s ELSE ""

\* The response objects of claim C16: a document that is absent or an
\* object, and content fields that are absent, empty or non-empty strings.
StringFields(o) == \A k \in DOMAIN o.f : o.f[k].t = "str"
FieldsIndependent(o) ==
    /\ o.t = "obj"
    /\ DOMAIN o.f \subseteq {"document", "content"}
    /\ "content" \in DOMAIN o.f => o.f["content"].t = "str"
    /\ "document" \in DOMAIN o.f =>
          o.f["document"].t = "obj" /\ StringFields(o.f["document"])

\* The three candidates in their order, and the first that is non-empty.
Candidates(o) ==
    LET doc == IF "document" \in DOMAIN o.f THEN o.f["document"] ELSE JObj(<<>>)
    IN <<StringField(doc, "md_content"), StringField(doc, "content"),
         StringField(o, "content")>>
FirstNonEmpty(c) ==
    IF c[1] # "" THEN c[1] ELSE IF c[2] # "" THEN c[2] ELSE c[3]

\* C16: for every response object whose three content fields are
\* independently absent, empty or non-empty, convert_file returns the first
\* non-empty one in the order document.md_content, document.content, content.
C16_OrderedExtraction ==
    (Answered200("convert_file") /\ FieldsIndependent(clientReply.json)) =>
        /\ clientRet.kind = "result"
        /\ clientRet.content = JStr(FirstNonEmpty(Candidates(clientReply.json)))

\* The values a body offers as content: the three fields of the object, or
\* of the first element of the list.
ContentFields(b) ==
    LET o == IF b.t = "list" /\ Len(b.items) > 0 THEN b.items[1] ELSE b
        top == IF o.t = "obj" /\ "content" \in DOMAIN o.f THEN {o.f["content"]} ELSE {}
        doc == IF o.t = "obj" /\ "document" \in DOMAIN o.f THEN {o.f["document"]} ELSE {}
    IN top \cup UNION {{d.f[k] : k \in DOMAIN d.f \cap {"md_content", "content"}} :
                          d \in {x \in doc : x.t = "obj"}}

\* An object or a list that carries no textual content.
NoTextualContent(b) ==
    /\ b.t \in {"obj", "list"}
    /\ \A v \in ContentFields(b) : ~(v.t = "str" /\ v.s # "")

\* C17: a 200 response whose body is an object or a list without textual
\* content makes convert_file return a result with success, the empty
\* string as content and no error; it raises nothing.
C17_EmptyIsSuccess ==
    (Answered200("convert_file") /\ NoTextualContent(clientReply.json)) =>
        clientRet = ConvertResult(JStr(""), TRUE, NoError)

\* The text contains the part, as a run of consecutive tokens.
Contains(text, part) ==
    \E i \in 1..(Len(text) - Len(part) + 1) :
        SubSeq(text, i, i + Len(part) - 1) = part

\* C18: for every status s other than 200 and every body b, convert_file
\* raises a DoclingHTTPError whose status_code is s and whose message
\* contains b; it returns a ConvertResult for no such response.
C18_HttpError ==
    /\ AnsweredNot200("convert_file") =>
          /\ clientRet.kind = "raise"
          /\ clientRet.exc = "DoclingHTTPError"
          /\ clientRet.status_code = clientReply.code
          /\ Contains(clientRet.message, clientReply.text)
    /\ (clientCall = "convert_file" /\ clientRet.kind = "result") =>
          ~(clientReply.kind = "status" /\ clientReply.code # 200)

\* Status 500 with the body "boom".
C18_Witness ==
    /\ AnsweredNot200("convert_file")
    /\ clientReply.code = 500
    /\ clientReply.text = <<"boom">>
    /\ clientRet.status_code = 500
    /\ clientRet.message = <<"HTTP ", "500", ": ", "boom">>

\* C19: a transport failure of the request of convert_file does not leave
\* the function as an exception: it returns a result without success, with
\* empty content and, as error, the non-empty text of the exception.
C19_TransportFailure ==
    (clientCall = "convert_file" /\ clientReply.kind = "RequestException") =>
        /\ clientRet = ConvertResult(JStr(""), FALSE, ErrorText(clientReply.text))
        /\ clientRet.error.set
        /\ clientRet.error.text # <<>>

\* The connection was refused.
C19_Witness ==
    /\ clientCall = "convert_file"
    /\ clientReply.kind = "RequestException"
    /\ clientRet.kind = "result"
    /\ ~clientRet.success
    /\ clientRet.error = ErrorText(<<"Connection refused">>)

\* A task id that is missing from the body, or empty.
NoTaskId(b) ==
    \/ "task_id" \notin DOMAIN b.f
    \/ b.f["task_id"] \in {JNull, JStr("")}

\* C20: convert_file_async returns a task id only for a 200 response that
\* carries a non-empty task_id, and then exactly that one; a 200 response
\* whose task_id is missing or empty raises an error, and so does every
\* response that is not 200.
C20_SubmitTaskId ==
    clientCall = "convert_file_async" =>
        /\ clientRet.kind \in {"value", "raise"}
        /\ clientRet.kind = "value" =>
              /\ clientReply.kind = "status" /\ clientReply.code = 200
              /\ clientReply.json.t = "obj"
              /\ ~NoTaskId(clientReply.json)
              /\ clientRet.content = clientReply.json.f["task_id"]
        /\ (Answered200("convert_file_async") /\ clientReply.json.t = "obj") =>
              IF NoTaskId(clientReply.json)
              THEN /\ clientRet.kind = "raise"
                   /\ clientRet.exc = "DoclingHTTPError"
                   /\ clientRet.status_code = 200
              ELSE clientRet = ReturnedValue(clientReply.json.f["task_id"])
        /\ AnsweredNot200("convert_file_async") =>
              /\ clientRet.kind = "raise"
              /\ clientRet.exc = "DoclingHTTPError"
              /\ clientRet.status_code = clientReply.code

\* The body {"task_id": "abc"}.
C20_Witness ==
    /\ Answered200("convert_file_async")
    /\ clientReply.json = JObj([task_id |-> JStr("abc")])
    /\ clientRet = ReturnedValue(JStr("abc"))

\* The session submitted a file and was given the task id "abc", polled that
\* id until the service reported "completed", and fetched the result of
\* that id, which came back carrying the content x.
CompletedSession(x) ==
    /\ submitted = JStr("abc")
    /\ polled.arg = submitted
    /\ polled.status = JStr("completed")
    /\ clientArg = submitted
    /\ Answered200("get_result")
    /\ clientReply.json \in {JObj([content |-> JStr(x)]),
                            JObj([document |-> JObj([md_content |-> JStr(x)])])}

\* C21: a submit answered with the task id t, then a poll of t answered
\* "completed", then a fetch of t answered with a body that carries the
\* content C yields a ConvertResult with success and exactly the content C;
\* the poll and the fetch both requested the URL keyed by t.
C21_AsyncProtocol ==
    \A x \in {"done", "Y"} :
        CompletedSession(x) =>
            /\ clientRet = ConvertResult(JStr(x), TRUE, NoError)
            /\ polled.url = <<"/v1/status/poll/", submitted>>
            /\ clientUrl = <<"/v1/result/", submitted>>

\* The case of the specification: task id "abc", content "done".
C21_Witness ==
    /\ CompletedSession("done")
    /\ clientReply.json = JObj([content |-> JStr("done")])
    /\ clientRet.content = JStr("done")
    /\ clientRet.success

\* C22: on a 200 response (whose body is a JSON object) poll_status returns
\* a StatusResult with the status of the body ("unknown" when it has none),
\* the error of the body (none when it has none) and the task id it was
\* called with; on every other status and on a transport failure it
\* raises a DoclingHTTPError and returns no status.
C22_PollStatus ==
    clientCall = "poll_status" =>
        /\ (clientReply.kind = "status" /\ clientReply.code = 200
                /\ clientReply.json.t = "obj") =>
              /\ clientRet.kind = "status_result"
              /\ clientRet.task_id = clientArg
              /\ clientRet.status =
                    (IF "status" \in DOMAIN clientReply.json.f
                     THEN clientReply.json.f["status"] ELSE JStr("unknown"))
              /\ clientRet.error =
                    (IF "error" \in DOMAIN clientReply.json.f
                     THEN clientReply.json.f["error"] ELSE JNull)
        /\ (clientReply.kind = "status" /\ clientReply.code # 200) =>
              /\ clientRet.kind = "raise"
              /\ clientRet.exc = "DoclingHTTPError"
              /\ clientRet.status_code = clientReply.code
        /\ clientReply.kind = "RequestException" =>
              /\ clientRet.kind = "raise"
              /\ clientRet.exc = "DoclingHTTPError"
              /\ clientRet.status_code = 500

\* A poll of "xyz" answered with a failed task and its error text.
C22_Witness ==
    /\ clientCall = "poll_status"
    /\ clientArg = JStr("xyz")
    /\ clientReply.kind = "status" /\ clientReply.code = 200
    /\ clientReply.json = JObj([status |-> JStr("failed"),
                                error |-> JStr("Processing error")])
    /\ clientRet = StatusResult(JStr("failed"), JStr("xyz"), JStr("Processing error"))

\* C23: on every outcome of the request get_result and convert_file either
\* both return a result, with the same success flag and the same content,
\* or both raise a DoclingHTTPError with the same status code.
C23_SameHandling ==
    clientCall = "get_result" =>
        LET g == clientRet
            c == convert_file(clientReply)
        IN  \/ /\ g.kind = "result" /\ c.kind = "result"
               /\ g.success = c.success
               /\ g.content = c.content
            \/ /\ g.kind = "raise" /\ c.kind = "raise"
               /\ g.exc = "DoclingHTTPError" /\ c.exc = "DoclingHTTPError"
               /\ g.status_code = c.status_code

\* is_ready() of m has been called.
Probed(m) == ready[m].probes > 0

\* C24: is_ready makes one probe, returns True exactly when the probe
\* reported health, returns False when it reported none or raised, never
\* raises; the call leaves the manager (container_name, container_id) and
\* the engine as they were and issues no command.
C24_IsReady ==
    /\ [](\A m \in Managers : Probed(m) =>
            /\ ready[m].probes = 1
            /\ ready[m].value \in {"True", "False"}
            /\ ready[m].value = "True" <=> ready[m].health = "True"
            /\ ready[m].health \in {"False", "raise"} => ready[m].value = "False")
    /\ [][ready' # ready =>
            UNCHANGED <<engineVars, mgrVars, lifecycle, starts, stops, listed,
                        stopIssued, stopOk, runIssued>>]_vars

\* is_ready on a started manager whose probe raised an exception that
\* check_health does not catch.
C24_Witness ==
    /\ container_id["m1"] # None
    /\ ready["m1"].probes = 1
    /\ ready["m1"].reply.kind = "Exception"
    /\ ready["m1"].health = "raise"
    /\ ready["m1"].value = "False"

\* C25: check_health returns True if and only if the request ended with
\* status 200; every other status and every transport exception gives
\* False, and the exception does not leave the function.
C25_CheckHealth ==
    \A m \in Managers :
        (Probed(m) /\ ready[m].reply.kind \in {"status", "RequestException"}) =>
            /\ ready[m].health \in {"True", "False"}
            /\ ready[m].health = "True" <=>
                  (ready[m].reply.kind = "status" /\ ready[m].reply.code = 200)

\* A probe answered 503 by the running service.
C25_Witness ==
    /\ Own \in running
    /\ ready["m1"].reply = [kind |-> "status", code |-> 503]
    /\ ready["m1"].health = "False"

\* ------------------------------------------------- the order of the requests
\* The requests whose outcome the loop has not recorded yet: the file of a
\* request is handled once the loop has recorded that many outcomes.
InFlight == {k \in 1..Len(requests) : requests[k] > Len(outcomes)}

\* C26: the files are converted one at a time, in the order of the input:
\* at most one request is in flight, a request is issued only when the
\* outcome of every earlier request has been recorded, the files requested
\* come in increasing order and none is requested twice.
C26_Sequential ==
    /\ [](/\ Cardinality(InFlight) <= 1
          /\ \A j, k \in 1..Len(requests) : j < k => requests[j] < requests[k]
          /\ InFlight # {} => mainPc \in {"convert", "exit", "done"}
          /\ mainPc = "convert" => InFlight = {Len(requests)})
    /\ [][requests' # requests =>
            /\ InFlight = {}
            /\ \E f \in Files : requests' = Append(requests, f)]_vars

\* The third request is in flight; the first two files were converted.
C26_Witness ==
    /\ mainPc = "convert"
    /\ requests = <<1, 2, 3>>
    /\ Len(outcomes) = 2
    /\ InFlight = {3}

\* The loop has just recorded the outcome `how` for a file.
JustRecorded(how) ==
    /\ Len(outcomes') = Len(outcomes) + 1
    /\ outcomes'[Len(outcomes')].how = how

\* The files recorded as skipped.
SkippedFiles == {outcomes[k].file : k \in {j \in 1..Len(outcomes) : outcomes[j].how = "skipped"}}

\* C28: a file whose output path exists when overwrite is not requested is
\* skipped: no request is issued for it, the output file stays as it is,
\* and skipped_count alone goes up by one; a file is skipped in no other
\* case, so with overwrite every file is converted.
C28_SkipExisting ==
    /\ [](/\ \A k \in 1..Len(requests) : requests[k] \notin SkippedFiles
          /\ overwrite => skipped_count = 0)
    /\ [][JustRecorded("skipped") =>
            /\ disk[get_output_path(InputFile(idx))] # Absent /\ ~overwrite
            /\ requests' = requests
            /\ disk' = disk
            /\ skipped_count' = skipped_count + 1
            /\ success_count' = success_count /\ failed_count' = failed_count]_vars
    /\ [][requests' # requests =>
            (disk[get_output_path(InputFile(idx))] = Absent \/ overwrite)]_vars

\* Without overwrite the first file was skipped, its output is the old one,
\* and another file was converted.
C28_Witness ==
    /\ BatchCompleted
    /\ ~overwrite
    /\ 1 \in SkippedFiles
    /\ disk[get_output_path(InputFile(1))] = "old"
    /\ skipped_count >= 1
    /\ success_count >= 1

\* With overwrite a file whose output existed was converted and written.
C28_WitnessOverwrite ==
    /\ overwrite
    /\ mainPc = "loop"
    /\ inputs # <<>>
    /\ inputs[1].exists
    /\ outcomes # <<>>
    /\ outcomes[1].how = "ok"

\* The sum of the three counters.
Handled == success_count + skipped_count + failed_count

\* Exactly one of the three counters goes up, by one.
OneCounterUp ==
    \/ /\ success_count' = success_count + 1
       /\ UNCHANGED <<skipped_count, failed_count>>
    \/ /\ skipped_count' = skipped_count + 1
       /\ UNCHANGED <<success_count, failed_count>>
    \/ /\ failed_count' = failed_count + 1
       /\ UNCHANGED <<success_count, skipped_count>>

\* C29: handling a file adds one to exactly one of success_count,
\* skipped_count and failed_count, and nothing else changes them; at every
\* loop boundary their sum is the number of files handled so far, and when
\* the batch completes the sum is the number of input files.
C29_CounterSum ==
    /\ [](/\ Handled = Len(outcomes)
          /\ mainPc = "loop" => Handled = idx - 1
          /\ BatchCompleted => Handled = NumFiles)
    /\ [][IF Len(outcomes') = Len(outcomes) + 1
          THEN OneCounterUp
          ELSE UNCHANGED <<success_count, skipped_count, failed_count, outcomes>>]_vars

\* A completed batch with a success, a skip and a failure.
C29_Witness ==
    /\ BatchCompleted
    /\ success_count >= 1
    /\ skipped_count >= 1
    /\ failed_count >= 1
    /\ Handled = NumFiles

\* ------------------------------------------------------- the output files
\* The output files this run has written.
FilesWritten == {written[k] : k \in 1..Len(written)}

\* write_text has just written the output file of the file at hand.
JustWritten == written' = Append(written, get_output_path(InputFile(idx)))

\* C30: an output file is written only for a conversion whose result has
\* success, with exactly the content of that result; a conversion that
\* returned a result without success or raised leaves the output path as
\* it was; and the number of output files written in the run is
\* success_count.
C30_WrittenOnSuccess ==
    /\ [](Cardinality(FilesWritten) = success_count)
    /\ [][(written' # written \/ disk' # disk) =>
            /\ JustWritten
            /\ lastResult'.success
            /\ disk' = [disk EXCEPT ![get_output_path(InputFile(idx))] =
                                        lastResult'.content]]_vars
    /\ [][(Len(outcomes') = Len(outcomes) + 1 /\ ~lastResult'.success) =>
            UNCHANGED <<disk, written>>]_vars

\* ------------------------------------------------------------- the spinner
\* What a run shows of itself: the requests, the files written, the three
\* counters, the exception on its way out, the exit status.
Shown(rq, wr, sc, kc, fc, pe, ex) ==
    [requests |-> rq, written |-> wr, success |-> sc, skipped |-> kc,
     failed |-> fc, pending |-> pe, exit |-> ex, idx |-> Len(wr) + kc + fc + 1]

\* One step of the loop of a quiet run, which has no spinner, on what the
\* step was given.
QuietStep(q, i) ==
    CASE i.kind = "stat" ->
            IF i.fs = "OSError" THEN [q EXCEPT !.pending = "OSError"]
            ELSE IF skip_file(i.exists, overwrite)
            THEN [q EXCEPT !.skipped = @ + 1, !.idx = next_index(@)]
            ELSE [q EXCEPT !.requests = Append(@, q.idx)]
      [] i.kind = "convert" ->
            IF i.how = "ok"
            THEN [q EXCEPT !.written = Append(@, get_output_path(InputFile(q.idx))),
                           !.success = @ + 1, !.idx = next_index(@)]
            ELSE [q EXCEPT !.failed = @ + 1, !.idx = next_index(@)]
      [] i.kind = "interrupt" -> [q EXCEPT !.pending = "KeyboardInterrupt"]
      [] OTHER ->
            [q EXCEPT !.exit =
                IF i.out # "returned" THEN Raised(i.out)
                ELSE IF q.pending # None
                     THEN IF q.pending = "KeyboardInterrupt"
                          THEN Returned(130) ELSE Raised(q.pending)
                     ELSE Returned(exit_code(q.success, q.skipped, q.failed))]

\* The quiet run that is given the sequence of inputs.
RECURSIVE QuietRun(_)
QuietRun(in) ==
    IF in = <<>> THEN Shown(<<>>, <<>>, 0, 0, 0, None, NotEnded)
    ELSE QuietStep(QuietRun(SubSeq(in, 1, Len(in) - 1)), in[Len(in)])

\* A step of a spinner thread: the spinner changes and main takes no input.
SpinStep == spinner' # spinner /\ inputs' = inputs

\* C27: the spinner does not change what the run does: whatever the
\* threads of the spinner do in between, the requests, the files written,
\* the three counters and the exit status are those of the quiet run that
\* is given the same inputs; a step of a spinner thread changes the fields
\* of the spinner and nothing else.
C27_SpinnerCosmetic ==
    /\ [](Shown(requests, written, success_count, skipped_count, failed_count,
                pending, exitStatus) = QuietRun(inputs))
    /\ [][SpinStep =>
            UNCHANGED <<engineVars, mgrVars, histVars, cliVars, clientVars,
                        quiet, inputs, written, lastResult>>]_vars

\* A run with the spinner: the second request is in flight, the thread of
\* the first file is still alive next to the second, and the line shows the
\* second file.
C27_Witness ==
    /\ ~quiet
    /\ mainPc = "convert"
    /\ requests = <<1, 2>>
    /\ success_count = 1
    /\ spinner.running
    /\ spinner.threads = 2
    /\ spinner.shown = 2

====
